---- MODULE Spec2Model ----
\* Model of the AI Inbox Agent backend (src/main.py): two FastAPI handlers,
\* analyze_message and rewrite_reply, each making one blocking call to the
\* completion service and normalising the JSON text it returns.
EXTENDS Integers, Sequences, FiniteSets, TLC

\* ---------------------------------------------------------------- bounds
NumRequests == 2        \* requests the concurrent specification handles
MaxTasks == 2           \* longest upstream "tasks" list that is enumerated

Requests == 1..NumRequests

\* ------------------------------------------------------- JSON / Python values
\* Every value has the same shape: a type tag, the text of a scalar and the
\* elements of a list.  A number is kept as its decimal text.
Str(s) == [t |-> "str", s |-> s, items |-> <<>>]
Num(s) == [t |-> "num", s |-> s, items |-> <<>>]
Null == [t |-> "null", s |-> "", items |-> <<>>]
Obj == [t |-> "dict", s |-> "", items |-> <<>>]
List(xs) == [t |-> "list", s |-> "", items |-> xs]
EmptyDict == [k \in {} |-> Null]

RECURSIVE SeqsUpTo(_, _)
SeqsUpTo(S, n) ==
    IF n = 0 THEN {<<>>}
    ELSE LET shorter == SeqsUpTo(S, n - 1)
         IN shorter \cup {Append(q, e) : q \in {p \in shorter : Len(p) = n - 1}, e \in S}

Labels == {"Urgent", "Request", "Follow-Up", "Reminder", "Informational"}

AnalysisFields == {"classification", "summary", "tasks", "suggested_reply"}
RewriteFields == {"rewritten_reply"}

\* Values the completion service may put in each field of its JSON object.
TaskItems == {Str("a"), Str("b"), Num("7")}
UpstreamValues(k) ==
    CASE k = "classification" -> {Str("Request"), Str("Spam"), Num("7"), Null}
      [] k = "summary" -> {Str("s"), Num("7"), Null}
      [] k = "tasks" -> {List(xs) : xs \in SeqsUpTo(TaskItems, MaxTasks)}
                           \cup {Str("a"), Num("7"), Null, Obj}
      [] k = "suggested_reply" -> {Str("r"), Null, List(<<>>)}
      [] k = "rewritten_reply" -> {Str("w"), Str(""), Num("7"), Null, List(<<>>)}

ObjectsOver(Fields) ==
    UNION {{d \in [S -> UNION {UpstreamValues(k) : k \in Fields}] :
               \A k \in S : d[k] \in UpstreamValues(k)} : S \in SUBSET Fields}

\* What one call of client.chat.completions.create can produce: it raises, or
\* it returns a completion whose content is None, text that is not JSON, JSON
\* text of a non-object, or JSON text of an object.
Raises == [kind |-> "raise", doc |-> EmptyDict]
NoContent == [kind |-> "none", doc |-> EmptyDict]
Garbage == [kind |-> "garbage", doc |-> EmptyDict]
JsonArray == [kind |-> "array", doc |-> EmptyDict]
JsonObject(d) == [kind |-> "object", doc |-> d]

FieldsOf(ep) == IF ep = "analyze" THEN AnalysisFields ELSE RewriteFields

AllCompletions(ep) ==
    {Raises, NoContent, Garbage, JsonArray} \cup {JsonObject(d) : d \in ObjectsOver(FieldsOf(ep))}

FullAnalysis ==
    [classification |-> Str("Request"), summary |-> Str("s"),
     tasks |-> List(<<Str("a"), Str("b")>>), suggested_reply |-> Str("r")]

SampleCompletions(ep) ==
    IF ep = "analyze"
    THEN {Raises, Garbage, JsonObject(EmptyDict), JsonObject(FullAnalysis),
          JsonObject([FullAnalysis EXCEPT !["summary"] = Null])}
    ELSE {Raises, Garbage, JsonObject(EmptyDict),
          JsonObject([rewritten_reply |-> Str("w")]),
          JsonObject([rewritten_reply |-> Null])}

\* Request bodies (MessageRequest / RewriteRequest), already validated by FastAPI.
Bodies(ep) ==
    IF ep = "analyze"
    THEN {[message |-> m, original_message |-> "", base_reply |-> "", style |-> ""] :
             m \in {"hello"}}
    ELSE {[message |-> "", original_message |-> "hello", base_reply |-> b, style |-> "short"] :
             b \in {"b1", "b2"}}
NoBody == [message |-> "", original_message |-> "", base_reply |-> "", style |-> ""]

VARIABLES client, lax, pc, endpoint, request, completion, response, calls, log, loop, sent
vars == <<client, lax, pc, endpoint, request, completion, response, calls, log, loop, sent>>

TheClient == "OpenAI(api_key)"
NoResponse == [status |-> 0, body |-> EmptyDict]

\* ------------------------------------------------------------ pure helpers
\* dict.get(key, default): the default is used only when the key is absent.
dict_get_always_default(d, k, default) == default
dict_get(d, k, default) == IF k \in DOMAIN d THEN d[k] ELSE default

\* Validation of a field declared `str` by the response models.  A string is
\* kept; a number is turned into its text when the installed pydantic coerces
\* numbers (lax), and is rejected otherwise; anything else is rejected.
validate_str_unchecked(v) == [ok |-> TRUE, v |-> v]
validate_str(v) ==
    IF v.t = "str" THEN [ok |-> TRUE, v |-> v]
    ELSE IF v.t = "num" /\ lax THEN [ok |-> TRUE, v |-> Str(v.s)]
    ELSE [ok |-> FALSE, v |-> v]

\* Validation of the field declared `List[str]`.
validate_list_str(v) ==
    IF v.t # "list" THEN [ok |-> FALSE, v |-> v]
    ELSE LET each == [i \in 1..Len(v.items) |-> validate_str(v.items[i])]
         IN [ok |-> \A i \in 1..Len(v.items) : each[i].ok,
             v |-> List([i \in 1..Len(v.items) |-> each[i].v])]

\* `if not isinstance(tasks, list): tasks = []`
coerce_tasks(tasks) == IF tasks.t # "list" THEN List(<<>>) ELSE tasks

Success(body) == [ok |-> TRUE, body |-> body, cause |-> ""]
Failure(cause) == [ok |-> FALSE, body |-> EmptyDict, cause |-> cause]

\* Construction of the response model from the four normalised values.
MessageAnalysisResponse(classification, summary, tasks, suggested_reply) ==
    LET c == validate_str(classification)
        s == validate_str(summary)
        t == validate_list_str(tasks)
        r == validate_str(suggested_reply)
    IN IF c.ok /\ s.ok /\ t.ok /\ r.ok
       THEN Success([classification |-> c.v, summary |-> s.v,
                     tasks |-> t.v, suggested_reply |-> r.v])
       ELSE Failure("ValidationError")

RewriteResponse(rewritten_reply) ==
    LET w == validate_str(rewritten_reply)
    IN IF w.ok THEN Success([rewritten_reply |-> w.v]) ELSE Failure("ValidationError")

\* content = completion.choices[0].message.content; data = json.loads(content)
\* Yields the parsed object, or the exception raised on the way to it.
json_loads(comp) ==
    CASE comp.kind = "raise" -> [ok |-> FALSE, data |-> EmptyDict, cause |-> "APIError"]
      [] comp.kind = "none" -> [ok |-> FALSE, data |-> EmptyDict, cause |-> "TypeError"]
      [] comp.kind = "garbage" -> [ok |-> FALSE, data |-> EmptyDict, cause |-> "JSONDecodeError"]
      [] comp.kind = "array" -> [ok |-> FALSE, data |-> EmptyDict, cause |-> "AttributeError"]
      [] comp.kind = "object" -> [ok |-> TRUE, data |-> comp.doc, cause |-> ""]

\* The body of the try block of analyze_message, after the call has returned.
analyze_try(req, comp) ==
    LET parsed == json_loads(comp)
        data == parsed.data
        classification == dict_get(data, "classification", Str("Informational"))
        summary == dict_get(data, "summary", Str(""))
        tasks == coerce_tasks(dict_get(data, "tasks", List(<<>>)))
        suggested_reply == dict_get(data, "suggested_reply", Str(""))
    IN IF ~parsed.ok THEN Failure(parsed.cause)
       ELSE MessageAnalysisResponse(classification, summary, tasks, suggested_reply)

\* The body of the try block of rewrite_reply, after the call has returned.
rewrite_try(req, comp) ==
    LET parsed == json_loads(comp)
        rewritten == dict_get(parsed.data, "rewritten_reply", Str(req.base_reply))
    IN IF ~parsed.ok THEN Failure(parsed.cause) ELSE RewriteResponse(rewritten)

\* `except Exception as e: ... raise HTTPException(status_code=500, detail=...)`
ErrorDetail(ep) == IF ep = "analyze" THEN "Error analyzing message" ELSE "Error rewriting reply"
HTTPException_with_cause(ep, cause) == [status |-> 500, body |-> [detail |-> Str(cause)]]
HTTPException(ep, cause) == [status |-> 500, body |-> [detail |-> Str(ErrorDetail(ep))]]

\* The HTTP response of a handler whose call produced comp.
HandlerResponse_breaker(ep, req, comp) ==
    LET res == IF ep = "analyze" THEN analyze_try(req, comp) ELSE rewrite_try(req, comp)
    IN IF res.ok /\ \A q \in Requests : response[q].status # 500
       THEN [status |-> 200, body |-> res.body]
       ELSE HTTPException(ep, res.cause)
HandlerResponse(ep, req, comp) ==
    LET res == IF ep = "analyze" THEN analyze_try(req, comp) ELSE rewrite_try(req, comp)
    IN IF res.ok THEN [status |-> 200, body |-> res.body] ELSE HTTPException(ep, res.cause)

\* What the except clause prints; nothing is printed on success.
Logged(ep, req, comp) ==
    LET res == IF ep = "analyze" THEN analyze_try(req, comp) ELSE rewrite_try(req, comp)
    IN res.cause

\* ------------------------------------------------------------------ state
\* client   the module-level OpenAI handle
\* lax      whether the installed pydantic coerces numbers to str
\* pc       where each request is: idle, arrived, calling, returned, done
\* loop     the requests whose handler occupies the event loop (none or one)
\* log      what the except clause printed for each request
\* sent     the requests answered so far, in the order of their responses
TypeOK ==
    /\ client = TheClient
    /\ lax \in BOOLEAN
    /\ pc \in [Requests -> {"idle", "arrived", "calling", "returned", "done"}]
    /\ endpoint \in [Requests -> {"analyze", "rewrite"}]
    /\ calls \in [Requests -> 0..2]
    /\ loop \in SUBSET Requests /\ Cardinality(loop) <= 1
    /\ sent \in Seq(Requests) /\ Len(sent) <= NumRequests

Init ==
    /\ client = TheClient
    /\ lax \in BOOLEAN
    /\ pc = [r \in Requests |-> "idle"]
    /\ endpoint = [r \in Requests |-> "analyze"]
    /\ request = [r \in Requests |-> NoBody]
    /\ completion = [r \in Requests |-> Raises]
    /\ response = [r \in Requests |-> NoResponse]
    /\ calls = [r \in Requests |-> 0]
    /\ log = [r \in Requests |-> ""]
    /\ loop = {}
    /\ sent = <<>>

\* A POST reaches the server and its body passes request validation.
Arrive(r) ==
    /\ pc[r] = "idle"
    /\ \E ep \in {"analyze", "rewrite"} : \E b \in Bodies(ep) :
          /\ endpoint' = [endpoint EXCEPT ![r] = ep]
          /\ request' = [request EXCEPT ![r] = b]
    /\ pc' = [pc EXCEPT ![r] = "arrived"]
    /\ UNCHANGED <<client, lax, completion, response, calls, log, loop, sent>>

\* The event loop runs the coroutine of an arrived request.  Both handlers
\* are `async def` and call the synchronous client without awaiting, so the
\* coroutine keeps the loop from its first statement to its return.
CallCompletion(r) ==
    /\ pc[r] = "arrived"
    /\ loop = {}
    /\ loop' = {r}
    /\ calls' = [calls EXCEPT ![r] = @ + 1]
    /\ pc' = [pc EXCEPT ![r] = "calling"]
    /\ UNCHANGED <<client, lax, endpoint, request, completion, response, log, sent>>

analyze_message_call(r) == endpoint[r] = "analyze" /\ CallCompletion(r)
rewrite_reply_call(r) == endpoint[r] = "rewrite" /\ CallCompletion(r)

\* client.chat.completions.create returns or raises; U is what it may produce.
CompletionReturns(r, U) ==
    /\ pc[r] = "calling"
    /\ \E comp \in U : completion' = [completion EXCEPT ![r] = comp]
    /\ pc' = [pc EXCEPT ![r] = "returned"]
    /\ UNCHANGED <<client, lax, endpoint, request, response, calls, log, loop, sent>>

\* The rest of the handler: parse, normalise, build the response model or
\* take the except clause; the coroutine ends and frees the event loop.
FinishRetry(r) ==
    /\ pc[r] = "returned"
    /\ LET resp == HandlerResponse(endpoint[r], request[r], completion[r])
       IN IF resp.status = 500 /\ calls[r] < 2
          THEN /\ calls' = [calls EXCEPT ![r] = @ + 1]
               /\ pc' = [pc EXCEPT ![r] = "calling"]
               /\ UNCHANGED <<response, loop, sent>>
          ELSE /\ response' = [response EXCEPT ![r] = resp]
               /\ pc' = [pc EXCEPT ![r] = "done"]
               /\ loop' = {}
               /\ sent' = Append(sent, r)
               /\ UNCHANGED calls
    /\ log' = [log EXCEPT ![r] = Logged(endpoint[r], request[r], completion[r])]
    /\ UNCHANGED <<client, lax, endpoint, request, completion>>

Finish(r) ==
    /\ pc[r] = "returned"
    /\ response' = [response EXCEPT ![r] =
                       HandlerResponse(endpoint[r], request[r], completion[r])]
    /\ log' = [log EXCEPT ![r] = Logged(endpoint[r], request[r], completion[r])]
    /\ pc' = [pc EXCEPT ![r] = "done"]
    /\ loop' = {}
    /\ sent' = Append(sent, r)
    /\ UNCHANGED <<client, lax, endpoint, request, completion, calls>>

analyze_message_finish(r) == endpoint[r] = "analyze" /\ Finish(r)
rewrite_reply_finish(r) == endpoint[r] = "rewrite" /\ Finish(r)

\* Concurrent requests, with a sample of the completion service's answers.
Next ==
    \E r \in Requests :
        \/ Arrive(r)
        \/ analyze_message_call(r)
        \/ rewrite_reply_call(r)
        \/ CompletionReturns(r, SampleCompletions(endpoint[r]))
        \/ analyze_message_finish(r)
        \/ rewrite_reply_finish(r)

Spec == Init /\ [][Next]_vars

\* One request, with every enumerated answer of the completion service.
NextNorm ==
    \E r \in {1} :
        \/ Arrive(r)
        \/ analyze_message_call(r)
        \/ rewrite_reply_call(r)
        \/ CompletionReturns(r, AllCompletions(endpoint[r]))
        \/ analyze_message_finish(r)
        \/ rewrite_reply_finish(r)

SpecNorm == Init /\ [][NextNorm]_vars

\* ------------------------------------------------------- claim vocabulary
Done(r) == pc[r] = "done"
Ok(r) == Done(r) /\ response[r].status = 200
Failed(r) == Done(r) /\ response[r].status = 500
Doc(r) == completion[r].doc
GotObject(r) == Done(r) /\ completion[r].kind = "object"

\* The documented default of each field.
DocumentedDefault(k, req) ==
    CASE k = "classification" -> Str("Informational")
      [] k = "summary" -> Str("")
      [] k = "tasks" -> List(<<>>)
      [] k = "suggested_reply" -> Str("")
      [] k = "rewritten_reply" -> Str(req.base_reply)

\* A value has the type the response shape declares for field k.
RightType(k, v) ==
    IF k = "tasks"
    THEN v.t = "list" /\ \A i \in 1..Len(v.items) : v.items[i].t = "str"
    ELSE v.t = "str"

WellFormed(ep, d) == DOMAIN d = FieldsOf(ep) /\ \A k \in DOMAIN d : RightType(k, d[k])

FullyShaped(ep, body) == DOMAIN body = FieldsOf(ep) /\ \A k \in DOMAIN body : RightType(k, body[k])

GenericError(ep) == [status |-> 500, body |-> [detail |-> Str(ErrorDetail(ep))]]

\* C1: every upstream JSON object that lacks one or more fields makes the
\* handler succeed, each missing field takes its documented default, and the
\* well-typed fields that are present are returned as they came.
C1_MissingFieldsDefaulted ==
    \A r \in Requests :
        (GotObject(r) /\ DOMAIN Doc(r) # FieldsOf(endpoint[r])) =>
            /\ response[r].status = 200
            /\ \A k \in FieldsOf(endpoint[r]) \ DOMAIN Doc(r) :
                  response[r].body[k] = DocumentedDefault(k, request[r])
            /\ \A k \in DOMAIN Doc(r) :
                  RightType(k, Doc(r)[k]) => response[r].body[k] = Doc(r)[k]

\* C2: every internal failure of a request (the call raises, the content is
\* missing or is not JSON, the JSON is not an object, the response model
\* rejects a value) ends in status 500 with the endpoint's fixed message, the
\* same for every cause; the cause appears in the server log only.
C2_GenericErrorOnFailure ==
    \A r \in Requests :
        Done(r) =>
            /\ (log[r] # "") = (response[r].status = 500)
            /\ (completion[r].kind # "object") => response[r].status = 500
            /\ (response[r].status = 500) => response[r] = GenericError(endpoint[r])

C2_Witness ==
    \E r \in Requests :
        Failed(r) /\ log[r] = "JSONDecodeError" /\ completion[r] = Garbage
                  /\ response[r] = GenericError(endpoint[r])

\* C3: a wrong-typed field of an upstream JSON object never fails the request:
\* the handler answers with success and that field holds its safe default.
C3_WrongTypeDefaulted ==
    \A r \in Requests :
        GotObject(r) =>
            /\ response[r].status = 200
            /\ \A k \in DOMAIN Doc(r) :
                  ~RightType(k, Doc(r)[k]) =>
                      response[r].body[k] = DocumentedDefault(k, request[r])

\* C4: when the upstream tasks of analyze_message is present and is not a
\* list, the request succeeds and the result's tasks is the empty list.
C4_NonListTasksEmptied ==
    \A r \in Requests :
        (GotObject(r) /\ endpoint[r] = "analyze" /\ "tasks" \in DOMAIN Doc(r)
                      /\ Doc(r)["tasks"].t # "list") =>
            /\ response[r].status = 200
            /\ response[r].body["tasks"] = List(<<>>)

\* C5: an upstream object that carries every required field with its declared
\* type is returned verbatim: the request succeeds and the body equals the
\* upstream fields, tasks in the same order, with no default substituted.
C5_VerbatimPassThrough ==
    \A r \in Requests :
        (GotObject(r) /\ WellFormed(endpoint[r], Doc(r))) =>
            /\ response[r].status = 200
            /\ \A k \in FieldsOf(endpoint[r]) : response[r].body[k] = Doc(r)[k]

C5_Witness ==
    \E r \in Requests :
        /\ Ok(r) /\ endpoint[r] = "analyze"
        /\ Doc(r) = [classification |-> Str("Request"), summary |-> Str("s"),
                     tasks |-> List(<<Str("b"), Str("a")>>), suggested_reply |-> Str("r")]
        /\ response[r].body["tasks"].items = <<Str("b"), Str("a")>>

\* C6: the classification of every successful analyze_message response is one
\* of the five labels, whatever the upstream response holds.
C6_ClassificationInEnum ==
    \A r \in Requests :
        (Ok(r) /\ endpoint[r] = "analyze") =>
            /\ response[r].body["classification"].t = "str"
            /\ response[r].body["classification"].s \in Labels

\* C7: a request that has completed has exactly one outcome, a success whose
\* body has every field of the response shape with its declared type, or the
\* generic 500 error; a request that has not completed has no response.
C7_NoPartialResults ==
    \A r \in Requests :
        /\ Done(r) =>
              \/ response[r].status = 200 /\ FullyShaped(endpoint[r], response[r].body)
              \/ response[r] = GenericError(endpoint[r])
        /\ ~Done(r) => response[r] = NoResponse

C7_Witness ==
    \E r \in Requests :
        /\ Ok(r) /\ endpoint[r] = "analyze"
        /\ DOMAIN Doc(r) = {"summary"}
        /\ FullyShaped("analyze", response[r].body)

\* C8: the outcome of a request is a function of its own endpoint, body and
\* upstream response alone: two requests that agree on these get the same
\* response whatever happened to the other requests, a well-formed upstream
\* response succeeds after any number of failures, and the shared client
\* handle is never changed.
C8_FailuresContained ==
    /\ client = TheClient
    /\ \A r \in Requests :
          (GotObject(r) /\ WellFormed(endpoint[r], Doc(r))) => response[r].status = 200
    /\ \A r, q \in Requests :
          (Done(r) /\ Done(q) /\ endpoint[r] = endpoint[q] /\ request[r] = request[q]
                   /\ completion[r] = completion[q]) => response[r] = response[q]

C8_Witness ==
    \E r, q \in Requests :
        /\ Len(sent) >= 2 /\ sent[1] = r /\ sent[2] = q
        /\ Failed(r) /\ Ok(q)
        /\ WellFormed(endpoint[q], Doc(q))
        /\ client = TheClient

\* C9: a request whose upstream call has not returned never keeps another
\* request, already arrived, from starting its handler and making its call.
C9_SuspendedCallDoesNotBlock ==
    \A r, q \in Requests :
        (r # q /\ pc[r] = "calling" /\ pc[q] = "arrived") => ENABLED CallCompletion(q)

\* C10: a handled request makes exactly one call to the completion service,
\* whether the call succeeds, raises or returns unparsable text; none before
\* its handler runs, never a second one; the client handle stays as built.
C10_ExactlyOneCall ==
    /\ client = TheClient
    /\ \A r \in Requests :
          calls[r] = (IF pc[r] \in {"idle", "arrived"} THEN 0 ELSE 1)

C10_Witness ==
    \E r \in Requests : Failed(r) /\ calls[r] = 1 /\ log[r] = "APIError"
====
